---- MODULE Spec2Model ----
(***************************************************************************)
(* Model of romy-core's input normalisation and player assignment          *)
(* (romy-core/src/input.rs, romy-core/src/lib.rs).                         *)
(*                                                                         *)
(* Encodings.  Option<T>: None is the empty sequence, Some(x) is <<x>>.    *)
(* InputDevice: a record [variant, dev] whose dev is the Nes, Controller   *)
(* or Keyboard struct.  f32 axes: integers counting quarters, so 4 is 1.0, *)
(* 2 is 0.5 and -4 is -1.0 (all values used are exact in f32).             *)
(***************************************************************************)
EXTENDS Integers, Sequences, FiniteSets, TLC

VARIABLES
    pool,       \* InputCollection.inputs of the collection under assignment
    players,    \* info.players mapped to their input types (`devices`)
    pc,         \* position inside get_input_arguments
    dist,       \* candidates of the first split (`dist`)
    result,     \* `result`, one Option<InputDevice> per player
    remaining,  \* `remaining`: entries [pos, dev] not yet claimed
    last,       \* the latest split invocation: its input and its outputs
    passes,     \* number of split invocations of the current call
    dev,        \* a device built through its setters (device-level runs)
    nsets,      \* number of setter / key calls applied to dev
    query,      \* the latest affinity/convert query and its answers
    operands,   \* devices of one variant handed to combine (combine runs)
    history     \* entry pool and earlier return of repeated calls

vars == <<pool, players, pc, dist, result, remaining, last, passes, dev, nsets, query,
          operands, history>>

-----------------------------------------------------------------------------
(* Bounds *)

MaxPool == 3
MaxPlayers == 2
MaxOps == 4
MaxCalls == 3
MaxSets == 2

-----------------------------------------------------------------------------
(* Option *)

None == <<>>
Some(x) == <<x>>
IsSome(o) == Len(o) = 1
IsNone(o) == Len(o) = 0
Unwrap(o) == o[1]

Max(a, b) == IF a >= b THEN a ELSE b

-----------------------------------------------------------------------------
(* Types *)

InputDeviceType == {"Nes", "Controller", "Keyboard"}

KeyCode ==
    {"_1", "_2", "_3", "_4", "_5", "_6", "_7", "_8", "_9", "_0",
     "A", "B", "C", "D", "E", "F", "G", "H", "I", "J", "K", "L", "M",
     "N", "O", "P", "Q", "R", "S", "T", "U", "V", "W", "X", "Y", "Z",
     "Up", "Down", "Left", "Right", "Enter", "Tab",
     "LeftBracket", "RightBracket", "Slash", "Backslash",
     "Comma", "Period", "Semicolon", "Quote"}

Key_new(scan_code, key_code) == [scan_code |-> scan_code, key_code |-> key_code]

NesButtons == {"a", "b", "up", "down", "left", "right", "start", "select"}

ControllerButtons ==
    {"a", "b", "x", "y", "up", "down", "left", "right", "start", "select",
     "guide", "left_shoulder", "right_shoulder", "left_stick", "right_stick"}

ControllerSticks == {"left_stick_x", "left_stick_y", "right_stick_x", "right_stick_y"}

ControllerTriggers == {"left_trigger", "right_trigger"}

ControllerAxes == ControllerSticks \cup ControllerTriggers

\* #[derive(Default)]: every button up, every axis 0.0, no key pressed
Nes_default == [f \in NesButtons |-> FALSE]

Controller_default ==
    [f \in ControllerButtons \cup ControllerAxes |->
        IF f \in ControllerButtons THEN FALSE ELSE 0]

Keyboard_default == [pressed |-> <<>>]

InputDevice_Nes(nes) == [variant |-> "Nes", dev |-> nes]
InputDevice_Controller(controller) == [variant |-> "Controller", dev |-> controller]
InputDevice_Keyboard(keyboard) == [variant |-> "Keyboard", dev |-> keyboard]

-----------------------------------------------------------------------------
(* Keyboard *)

Keyboard_key_up(self, scan_code) ==
    [pressed |-> SelectSeq(self.pressed, LAMBDA key : key.scan_code # scan_code)]

\* key_down pushing the key without releasing its scan code first
Keyboard_key_down_push(self, key) == [pressed |-> Append(self.pressed, key)]

Keyboard_key_down(self, key) ==
    [pressed |-> Append(Keyboard_key_up(self, key.scan_code).pressed, key)]

\* is_down_scan comparing the locale-dependent key code, as is_down_key does
Keyboard_is_down_scan_by_key_code(self, scan_code) ==
    \E i \in 1..Len(self.pressed) : self.pressed[i].key_code = scan_code

Keyboard_is_down_scan(self, scan_code) ==
    \E i \in 1..Len(self.pressed) : self.pressed[i].scan_code = scan_code

Keyboard_to_nes(self) ==
    [a      |-> Keyboard_is_down_scan(self, "K")
                \/ Keyboard_is_down_scan(self, "X")
                \/ Keyboard_is_down_scan(self, "J"),
     b      |-> Keyboard_is_down_scan(self, "J")
                \/ Keyboard_is_down_scan(self, "Z")
                \/ Keyboard_is_down_scan(self, "N"),
     up     |-> Keyboard_is_down_scan(self, "W")
                \/ Keyboard_is_down_scan(self, "Up")
                \/ Keyboard_is_down_scan(self, "F"),
     down   |-> Keyboard_is_down_scan(self, "S") \/ Keyboard_is_down_scan(self, "Down"),
     left   |-> Keyboard_is_down_scan(self, "A")
                \/ Keyboard_is_down_scan(self, "Left")
                \/ Keyboard_is_down_scan(self, "R"),
     right  |-> Keyboard_is_down_scan(self, "D")
                \/ Keyboard_is_down_scan(self, "Right")
                \/ Keyboard_is_down_scan(self, "T"),
     start  |-> Keyboard_is_down_scan(self, "Enter"),
     select |-> Keyboard_is_down_scan(self, "Tab")]

\* the identity conversion rebuilding each key from its scan code alone
Keyboard_convert_scan_only(self, device_type) ==
    CASE device_type = "Nes" -> Some(InputDevice_Nes(Keyboard_to_nes(self)))
      [] device_type = "Keyboard" ->
            Some(InputDevice_Keyboard(
                [pressed |-> [i \in 1..Len(self.pressed) |->
                    Key_new(self.pressed[i].scan_code, self.pressed[i].scan_code)]]))
      [] OTHER -> None

Keyboard_convert(self, device_type) ==
    CASE device_type = "Nes" -> Some(InputDevice_Nes(Keyboard_to_nes(self)))
      [] device_type = "Keyboard" -> Some(InputDevice_Keyboard(self))
      [] OTHER -> None

Keyboard_affinity(self, device_type) ==
    CASE device_type = "Nes" -> Some(2)
      [] device_type = "Keyboard" -> Some(0)
      [] OTHER -> None

RECURSIVE Keyboard_combine_from(_, _, _)
Keyboard_combine_from(res, with, i) ==
    IF i > Len(with.pressed) THEN res
    ELSE Keyboard_combine_from(Keyboard_key_down(res, with.pressed[i]), with, i + 1)

\* combine leaving alone the scan codes self already holds
Keyboard_combine_keep_self(self, with) ==
    [pressed |-> self.pressed \o
        SelectSeq(with.pressed,
                  LAMBDA key : \A i \in 1..Len(self.pressed) :
                                   self.pressed[i].scan_code # key.scan_code)]

Keyboard_combine(self, with) == Keyboard_combine_from([pressed |-> self.pressed], with, 1)

-----------------------------------------------------------------------------
(* Nes *)

Nes_convert(self, device_type) ==
    CASE device_type = "Nes" -> Some(InputDevice_Nes(self))
      [] OTHER -> None

Nes_affinity(self, device_type) ==
    CASE device_type = "Nes" -> Some(0)
      [] OTHER -> None

\* combine returning the buttons of `with` alone
Nes_combine_with_only(self, with) == with

Nes_combine(self, with) == [f \in NesButtons |-> self[f] \/ with[f]]

-----------------------------------------------------------------------------
(* Controller *)

stick_sensitivity == 2

\* to_nes with an inclusive test on the negative side of the stick
Controller_to_nes_inclusive(self) ==
    [a      |-> self.a,
     b      |-> self.b,
     up     |-> self.up \/ self.left_stick_y <= -stick_sensitivity,
     down   |-> self.down \/ self.left_stick_y >= stick_sensitivity,
     left   |-> self.left \/ self.left_stick_x <= -stick_sensitivity,
     right  |-> self.right \/ self.left_stick_x >= stick_sensitivity,
     start  |-> self.start,
     select |-> self.select]

Controller_to_nes(self) ==
    [a      |-> self.a,
     b      |-> self.b,
     up     |-> self.up \/ self.left_stick_y < -stick_sensitivity,
     down   |-> self.down \/ self.left_stick_y >= stick_sensitivity,
     left   |-> self.left \/ self.left_stick_x < -stick_sensitivity,
     right  |-> self.right \/ self.left_stick_x >= stick_sensitivity,
     start  |-> self.start,
     select |-> self.select]

Controller_convert(self, device_type) ==
    CASE device_type = "Nes" -> Some(InputDevice_Nes(Controller_to_nes(self)))
      [] device_type = "Controller" -> Some(InputDevice_Controller(self))
      [] OTHER -> None

\* the scores of Controller and Keyboard towards Nes exchanged
Controller_affinity_as_keyboard(self, device_type) ==
    CASE device_type = "Nes" -> Some(2)
      [] device_type = "Controller" -> Some(0)
      [] OTHER -> None

Controller_affinity(self, device_type) ==
    CASE device_type = "Nes" -> Some(1)
      [] device_type = "Controller" -> Some(0)
      [] OTHER -> None

\* combine keeping the axes of self, whatever those of `with`
Controller_combine_self_axes(self, with) ==
    [f \in ControllerButtons \cup ControllerAxes |->
        IF f \in ControllerButtons THEN self[f] \/ with[f] ELSE self[f]]

Controller_combine(self, with) ==
    [f \in ControllerButtons \cup ControllerAxes |->
        IF f \in ControllerButtons THEN self[f] \/ with[f] ELSE Max(self[f], with[f])]

-----------------------------------------------------------------------------
(* InputDevice *)

InputDevice_convert(self, device_type) ==
    CASE self.variant = "Nes" -> Nes_convert(self.dev, device_type)
      [] self.variant = "Controller" -> Controller_convert(self.dev, device_type)
      [] self.variant = "Keyboard" -> Keyboard_convert(self.dev, device_type)

InputDevice_affinity(self, device_type) ==
    CASE self.variant = "Nes" -> Nes_affinity(self.dev, device_type)
      [] self.variant = "Controller" -> Controller_affinity(self.dev, device_type)
      [] self.variant = "Keyboard" -> Keyboard_affinity(self.dev, device_type)

InputDevice_combine(self, with) ==
    LET conversion == InputDevice_convert(with, self.variant)
    IN  IF IsSome(conversion) /\ Unwrap(conversion).variant = self.variant
        THEN CASE self.variant = "Nes" ->
                    InputDevice_Nes(Nes_combine(self.dev, Unwrap(conversion).dev))
               [] self.variant = "Controller" ->
                    InputDevice_Controller(Controller_combine(self.dev, Unwrap(conversion).dev))
               [] self.variant = "Keyboard" ->
                    InputDevice_Keyboard(Keyboard_combine(self.dev, Unwrap(conversion).dev))
        ELSE self

-----------------------------------------------------------------------------
(* InputCollection *)

\* self.inputs.clone() with each device tagged by its position in the collection
Entries(inputs) == [i \in 1..Len(inputs) |-> [pos |-> i, dev |-> inputs[i]]]

\* Vec::remove(index)
\* Vec::remove that leaves the vector as it is
Remove_nothing(seq, index) == seq

Remove(seq, index) == [i \in 1..(Len(seq) - 1) |-> IF i < index THEN seq[i] ELSE seq[i + 1]]

NoneFound == [found_index |-> None, found_affinity |-> None, found_for |-> None]

\* split_scan with the comparison of line 178 weakened to `>`: a later device of
\* equal affinity replaces the candidate
RECURSIVE split_scan_last_tie(_, _, _, _)
split_scan_last_tie(remaining_, input_type, index, st) ==
    IF index > Len(remaining_) THEN st
    ELSE LET input == remaining_[index].dev
             affinity == InputDevice_affinity(input, input_type)
         IN  IF IsNone(affinity)
             THEN split_scan_last_tie(remaining_, input_type, index + 1, st)
             ELSE IF IsSome(st.found_affinity) /\ Unwrap(affinity) > Unwrap(st.found_affinity)
             THEN split_scan_last_tie(remaining_, input_type, index + 1, st)
             ELSE LET found_new == InputDevice_convert(input, input_type)
                  IN  IF IsSome(found_new)
                      THEN split_scan_last_tie(remaining_, input_type, index + 1,
                                      [found_index |-> Some(index),
                                       found_affinity |-> affinity,
                                       found_for |-> found_new])
                      ELSE split_scan_last_tie(remaining_, input_type, index + 1, st)

\* the inner loop of split: one scan of `remaining` for one input_type
RECURSIVE split_scan(_, _, _, _)
split_scan(remaining_, input_type, index, st) ==
    IF index > Len(remaining_) THEN st
    ELSE LET input == remaining_[index].dev
             affinity == InputDevice_affinity(input, input_type)
         IN  IF IsNone(affinity)
             THEN split_scan(remaining_, input_type, index + 1, st)
             ELSE IF IsSome(st.found_affinity) /\ Unwrap(affinity) >= Unwrap(st.found_affinity)
             THEN split_scan(remaining_, input_type, index + 1, st)
             ELSE LET found_new == InputDevice_convert(input, input_type)
                  IN  IF IsSome(found_new)
                      THEN split_scan(remaining_, input_type, index + 1,
                                      [found_index |-> Some(index),
                                       found_affinity |-> affinity,
                                       found_for |-> found_new])
                      ELSE split_scan(remaining_, input_type, index + 1, st)

\* the outer loop of split, from slot k on; claimed[i] is the pool position of
\* the entry slot i removed
RECURSIVE split_from(_, _, _, _, _)
split_from(remaining_, into, k, found, claimed) ==
    IF k > Len(into)
    THEN [found |-> found, claimed |-> claimed, remaining |-> remaining_]
    ELSE LET st == split_scan(remaining_, into[k], 1, NoneFound)
         IN  IF IsSome(st.found_index)
             THEN split_from(Remove(remaining_, Unwrap(st.found_index)), into, k + 1,
                             Append(found, st.found_for),
                             Append(claimed, Some(remaining_[Unwrap(st.found_index)].pos)))
             ELSE split_from(remaining_, into, k + 1,
                             Append(found, st.found_for), Append(claimed, None))

\* split returning early, with no candidates at all, when it has no device to scan
split_stop_at_empty(entries, into) ==
    IF Len(entries) = 0
    THEN [found |-> <<>>, claimed |-> <<>>, remaining |-> <<>>]
    ELSE split_from(entries, into, 1, <<>>, <<>>)

\* split serving the slots from the last to the first
split_last_slot_first(entries, into) ==
    LET n == Len(into)
        s == split_from(entries, [i \in 1..n |-> into[n + 1 - i]], 1, <<>>, <<>>)
    IN  [found |-> [i \in 1..n |-> s.found[n + 1 - i]],
         claimed |-> [i \in 1..n |-> s.claimed[n + 1 - i]],
         remaining |-> s.remaining]

\* split handing each slot the device it claimed as it is, without converting it
split_unconverted(entries, into) ==
    LET s == split_from(entries, into, 1, <<>>, <<>>)
    IN  [s EXCEPT !.found =
            [i \in 1..Len(s.found) |->
                IF IsSome(s.claimed[i])
                THEN Some((CHOOSE e \in {entries[k] : k \in 1..Len(entries)} :
                               e.pos = Unwrap(s.claimed[i])).dev)
                ELSE None]]

split(entries, into) == split_from(entries, into, 1, <<>>, <<>>)

\* InputCollection::convert: the conversions are popped off the back
RECURSIVE convert_pop(_, _)
convert_pop(res, successfully_converted) ==
    IF Len(successfully_converted) = 0 THEN res
    ELSE convert_pop(
            InputDevice_combine(res, successfully_converted[Len(successfully_converted)]),
            SubSeq(successfully_converted, 1, Len(successfully_converted) - 1))

RECURSIVE convert_collect(_, _, _)
convert_collect(inputs, device_type, i) ==
    IF i > Len(inputs) THEN <<>>
    ELSE LET input == InputDevice_convert(inputs[i], device_type)
         IN  (IF IsSome(input) THEN <<Unwrap(input)>> ELSE <<>>)
                \o convert_collect(inputs, device_type, i + 1)

InputCollection_convert(inputs, device_type) ==
    LET successfully_converted == convert_collect(inputs, device_type, 1)
        n == Len(successfully_converted)
    IN  IF n = 0 THEN None
        ELSE Some(convert_pop(successfully_converted[n], SubSeq(successfully_converted, 1, n - 1)))

RECURSIVE affinity_from(_, _, _, _)
affinity_from(inputs, device_type, i, affinity) ==
    IF i > Len(inputs) THEN affinity
    ELSE LET test == InputDevice_affinity(inputs[i], device_type)
         IN  IF IsSome(affinity)
             THEN IF IsSome(test) /\ Unwrap(test) < Unwrap(affinity)
                  THEN affinity_from(inputs, device_type, i + 1, test)
                  ELSE affinity_from(inputs, device_type, i + 1, affinity)
             ELSE affinity_from(inputs, device_type, i + 1, test)

\* affinity that only ever looks at the first member of the collection
InputCollection_affinity_first_only(inputs, device_type) ==
    IF Len(inputs) = 0 THEN None ELSE InputDevice_affinity(inputs[1], device_type)

\* affinity settling on the first defined score instead of the lowest
InputCollection_affinity_first_defined(inputs, device_type) ==
    LET defined == {i \in 1..Len(inputs) : IsSome(InputDevice_affinity(inputs[i], device_type))}
    IN  IF defined = {} THEN None
        ELSE InputDevice_affinity(inputs[CHOOSE i \in defined : \A j \in defined : i <= j],
                                  device_type)

InputCollection_affinity(inputs, device_type) == affinity_from(inputs, device_type, 1, None)

\* absorb that drops the candidates of a progressing pass
absorb_discard(result_, new_dist) == result_

\* absorb that hands a leftover candidate to a slot that has no device yet
absorb_fill_unmatched(result_, new_dist) ==
    LET some == {j \in 1..Len(new_dist) : IsSome(new_dist[j])}
        first == CHOOSE j \in some : \A k \in some : j <= k
    IN  [i \in 1..Len(result_) |->
            IF IsSome(result_[i]) /\ IsSome(new_dist[i])
            THEN Some(InputDevice_combine(Unwrap(result_[i]), Unwrap(new_dist[i])))
            ELSE IF IsNone(result_[i]) /\ some # {}
            THEN new_dist[first]
            ELSE result_[i]]

\* absorb that never combines anything into the first slot
absorb_skip_first(result_, new_dist) ==
    [i \in 1..Len(result_) |->
        IF i > 1 /\ IsSome(result_[i]) /\ IsSome(new_dist[i])
        THEN Some(InputDevice_combine(Unwrap(result_[i]), Unwrap(new_dist[i])))
        ELSE result_[i]]

\* the body of the absorption loop after the break test (lines 144-150)
absorb(result_, new_dist) ==
    [i \in 1..Len(result_) |->
        IF IsSome(result_[i]) /\ IsSome(new_dist[i])
        THEN Some(InputDevice_combine(Unwrap(result_[i]), Unwrap(new_dist[i])))
        ELSE result_[i]]

-----------------------------------------------------------------------------
(* Devices the platform collaborators put in a pool *)

NesOf(down) == InputDevice_Nes([f \in NesButtons |-> f \in down])

ControllerOf(down, lx, ly, lt) ==
    InputDevice_Controller(
        [f \in ControllerButtons \cup ControllerAxes |->
            CASE f \in ControllerButtons -> f \in down
              [] f = "left_stick_x" -> lx
              [] f = "left_stick_y" -> ly
              [] f = "left_trigger" -> lt
              [] OTHER -> 0])

KeyboardOf(pressed) == InputDevice_Keyboard([pressed |-> pressed])

PoolDevices ==
    {NesOf({"a"}),
     NesOf({"b", "up"}),
     ControllerOf({"a"}, 0, 0, 0),
     ControllerOf({"x", "right"}, -4, 2, 4),
     KeyboardOf(<<>>),
     KeyboardOf(<<Key_new("W", "W")>>),
     KeyboardOf(<<Key_new("W", "Up"), Key_new("Enter", "Enter")>>)}

RECURSIVE SeqsUpTo(_, _)
SeqsUpTo(S, n) ==
    IF n = 0 THEN {<<>>}
    ELSE LET shorter == SeqsUpTo(S, n - 1)
         IN  shorter \cup {Append(s, x) : s \in shorter, x \in S}

NoDevice == [variant |-> "None", dev |-> <<>>]
NoSplit == [input |-> <<>>, found |-> <<>>, claimed |-> <<>>, remaining |-> <<>>]
NoQuery == [of |-> "none"]
NoHistory == [calls |-> 0, others |-> 0, entry |-> <<>>, first |-> None]

-----------------------------------------------------------------------------
(* The assignment call, one step per split pass *)

Init ==
    /\ pool = <<>>
    /\ players \in SeqsUpTo(InputDeviceType, MaxPlayers)
    /\ pc = "build"
    /\ dist = <<>>
    /\ result = <<>>
    /\ remaining = <<>>
    /\ last = NoSplit
    /\ passes = 0
    /\ dev = NoDevice
    /\ nsets = 0
    /\ query = NoQuery
    /\ operands = <<>>
    /\ history = NoHistory

add_input(device) ==
    /\ pc = "build"
    /\ Len(pool) < MaxPool
    /\ pool' = Append(pool, device)
    /\ UNCHANGED <<players, pc, dist, result, remaining, last, passes, dev, nsets, query, operands, history>>

\* the call with a first pass that overlooks the first device of the pool
get_input_arguments_skip_first ==
    /\ pc = "build"
    /\ \E s \in {split(SubSeq(Entries(pool), 2, Len(pool)), players)} :
           /\ dist' = s.found
           /\ result' = s.found
           /\ remaining' = s.remaining
           /\ last' = [input |-> Entries(pool), found |-> s.found,
                       claimed |-> s.claimed, remaining |-> s.remaining]
    /\ passes' = 1
    /\ pc' = "loop"
    /\ UNCHANGED <<pool, players, dev, nsets, query, operands, history>>

\* the call handing the loop the whole pool again instead of the remainder
get_input_arguments_keep_pool ==
    /\ pc = "build"
    /\ \E s \in {split(Entries(pool), players)} :
           /\ dist' = s.found
           /\ result' = s.found
           /\ remaining' = Entries(pool)
           /\ last' = [input |-> Entries(pool), found |-> s.found,
                       claimed |-> s.claimed, remaining |-> s.remaining]
    /\ passes' = 1
    /\ pc' = "loop"
    /\ UNCHANGED <<pool, players, dev, nsets, query, operands, history>>

\* the call with a first pass that looks at the first device of the pool alone
get_input_arguments_first_device_only ==
    /\ pc = "build"
    /\ \E s \in {split(SelectSeq(Entries(pool), LAMBDA e : e.pos = 1), players)} :
           /\ dist' = s.found
           /\ result' = s.found
           /\ remaining' = s.remaining \o SelectSeq(Entries(pool), LAMBDA e : e.pos > 1)
           /\ last' = [input |-> Entries(pool), found |-> s.found,
                       claimed |-> s.claimed,
                       remaining |-> s.remaining \o SelectSeq(Entries(pool), LAMBDA e : e.pos > 1)]
    /\ passes' = 1
    /\ pc' = "loop"
    /\ UNCHANGED <<pool, players, dev, nsets, query, operands, history>>

\* lines 120-135: the first split; s is the pair split returns
get_input_arguments ==
    /\ pc = "build"
    /\ \E s \in {split(Entries(pool), players)} :
           /\ dist' = s.found
           /\ result' = s.found
           /\ remaining' = s.remaining
           /\ last' = [input |-> Entries(pool), found |-> s.found,
                       claimed |-> s.claimed, remaining |-> s.remaining]
    /\ passes' = 1
    /\ pc' = "loop"
    /\ UNCHANGED <<pool, players, dev, nsets, query, operands, history>>

\* the loop without line 152: `remaining` is never replaced by the new remainder
loop_iteration_keep_remaining ==
    /\ pc = "loop"
    /\ \E s \in {split(remaining, players)} :
           /\ last' = [input |-> remaining, found |-> s.found,
                       claimed |-> s.claimed, remaining |-> s.remaining]
           /\ IF Len(s.remaining) = Len(remaining)
              THEN /\ pc' = "done"
                   /\ UNCHANGED <<result, remaining>>
              ELSE /\ result' = absorb(result, s.found)
                   /\ remaining' = remaining
                   /\ pc' = "loop"
    /\ passes' = passes + 1
    /\ UNCHANGED <<pool, players, dist, dev, nsets, query, operands, history>>

\* the loop with the break test of line 140 comparing against the whole pool
loop_iteration_break_on_pool ==
    /\ pc = "loop"
    /\ \E s \in {split(remaining, players)} :
           /\ last' = [input |-> remaining, found |-> s.found,
                       claimed |-> s.claimed, remaining |-> s.remaining]
           /\ IF Len(s.remaining) = Len(pool)
              THEN /\ pc' = "done"
                   /\ UNCHANGED <<result, remaining>>
              ELSE /\ result' = absorb(result, s.found)
                   /\ remaining' = s.remaining
                   /\ pc' = "loop"
    /\ passes' = passes + 1
    /\ UNCHANGED <<pool, players, dist, dev, nsets, query, operands, history>>

\* the loop with a break test that also stops a pass claiming a single device
loop_iteration_stop_early ==
    /\ pc = "loop"
    /\ \E s \in {split(remaining, players)} :
           /\ last' = [input |-> remaining, found |-> s.found,
                       claimed |-> s.claimed, remaining |-> s.remaining]
           /\ IF Len(s.remaining) + 1 >= Len(remaining)
              THEN /\ pc' = "done"
                   /\ UNCHANGED <<result, remaining>>
              ELSE /\ result' = absorb(result, s.found)
                   /\ remaining' = s.remaining
                   /\ pc' = "loop"
    /\ passes' = passes + 1
    /\ UNCHANGED <<pool, players, dist, dev, nsets, query, operands, history>>

\* the loop combining each slot with the device claimed for it as it is
loop_iteration_unconverted ==
    /\ pc = "loop"
    /\ \E s \in {split_unconverted(remaining, players)} :
           /\ last' = [input |-> remaining, found |-> s.found,
                       claimed |-> s.claimed, remaining |-> s.remaining]
           /\ IF Len(s.remaining) = Len(remaining)
              THEN /\ pc' = "done"
                   /\ UNCHANGED <<result, remaining>>
              ELSE /\ result' = absorb(result, s.found)
                   /\ remaining' = s.remaining
                   /\ pc' = "loop"
    /\ passes' = passes + 1
    /\ UNCHANGED <<pool, players, dist, dev, nsets, query, operands, history>>

\* lines 138-153: one iteration of the loop
loop_iteration ==
    /\ pc = "loop"
    /\ \E s \in {split(remaining, players)} :
           /\ last' = [input |-> remaining, found |-> s.found,
                       claimed |-> s.claimed, remaining |-> s.remaining]
           /\ IF Len(s.remaining) = Len(remaining)
              THEN /\ pc' = "done"
                   /\ UNCHANGED <<result, remaining>>
              ELSE /\ result' = absorb(result, s.found)
                   /\ remaining' = s.remaining
                   /\ pc' = "loop"
    /\ passes' = passes + 1
    /\ UNCHANGED <<pool, players, dist, dev, nsets, query, operands, history>>

Next ==
    \/ \E device \in PoolDevices : add_input(device)
    \/ get_input_arguments
    \/ loop_iteration

Spec == Init /\ [][Next]_vars

\* get_input_arguments as a function of the pool and the request list: the
\* first split, then the loop until a split leaves the remainder as long as it was
RECURSIVE absorb_loop(_, _, _)
absorb_loop(result_, remaining_, devices) ==
    LET s == split(remaining_, devices)
    IN  IF Len(s.remaining) = Len(remaining_)
        THEN result_
        ELSE absorb_loop(absorb(result_, s.found), s.remaining, devices)

assign(inputs, devices) ==
    LET s == split(Entries(inputs), devices)
    IN  absorb_loop(s.found, s.remaining, devices)

\* what the code's scheduling gives: the call is synchronous, so a loop that can
\* take another iteration takes it
\* Whether the loop ends depends on the devices' variants alone, so these runs
\* take one device of each variant.
FairDevices ==
    {NesOf({"a"}),
     ControllerOf({"x", "right"}, -4, 2, 4),
     KeyboardOf(<<Key_new("W", "W")>>)}

FairNext ==
    \/ \E device \in FairDevices : add_input(device)
    \/ get_input_arguments
    \/ loop_iteration

FairSpec == Init /\ [][FairNext]_vars /\ WF_vars(loop_iteration)

-----------------------------------------------------------------------------
(* Devices built through their own interface, then queried *)

\* values a collaborator stores in an axis: sticks in [-1, 1], triggers in [0, 1]
StickValues == {-4, -3, -2, -1, 0, 1, 2, 3, 4}
TriggerValues == {0, 1, 2, 3, 4}

\* keys a keyboard tracker reports: under its own key code, every scan code
\* to_nes reads and four it does not read; and some of them under the key code
\* another layout gives them
Keys ==
    {Key_new(s, s) : s \in {"K", "X", "J", "Z", "N", "W", "Up", "F", "S", "Down",
                            "A", "Left", "R", "D", "Right", "T", "Enter", "Tab",
                            "Q", "B", "_1", "Slash"}}
        \cup {Key_new("Q", "W"), Key_new("W", "Q"), Key_new("Q", "A"), Key_new("A", "Q")}

Query(of, input, device_type, affinity, convert) ==
    [of |-> of, input |-> input, device_type |-> device_type,
     affinity |-> affinity, convert |-> convert]

DevInit ==
    /\ dev \in {InputDevice_Nes(Nes_default),
                InputDevice_Controller(Controller_default),
                InputDevice_Keyboard(Keyboard_default)}
    /\ nsets = 0
    /\ query = NoQuery
    /\ pool = <<>>
    /\ players = <<>>
    /\ pc = "device"
    /\ dist = <<>>
    /\ result = <<>>
    /\ remaining = <<>>
    /\ last = NoSplit
    /\ passes = 0
    /\ operands = <<>>
    /\ history = NoHistory

unused == <<pool, players, pc, dist, result, remaining, last, passes, operands, history>>

\* Nes::set_a .. Nes::set_select
Nes_set(button, value) ==
    /\ dev.variant = "Nes"
    /\ query = NoQuery
    /\ nsets < MaxSets
    /\ dev' = [dev EXCEPT !.dev[button] = value]
    /\ nsets' = nsets + 1
    /\ UNCHANGED <<query, unused>>

\* Controller::set_a .. Controller::set_right_trigger
Controller_set(field, value) ==
    /\ dev.variant = "Controller"
    /\ query = NoQuery
    /\ nsets < MaxSets
    /\ dev' = [dev EXCEPT !.dev[field] = value]
    /\ nsets' = nsets + 1
    /\ UNCHANGED <<query, unused>>

key_down(key) ==
    /\ dev.variant = "Keyboard"
    /\ query = NoQuery
    /\ nsets < MaxSets
    /\ dev' = [dev EXCEPT !.dev = Keyboard_key_down(dev.dev, key)]
    /\ nsets' = nsets + 1
    /\ UNCHANGED <<query, unused>>

key_up(scan_code) ==
    /\ dev.variant = "Keyboard"
    /\ query = NoQuery
    /\ nsets < MaxSets
    /\ Keyboard_is_down_scan(dev.dev, scan_code)
    /\ dev' = [dev EXCEPT !.dev = Keyboard_key_up(dev.dev, scan_code)]
    /\ nsets' = nsets + 1
    /\ UNCHANGED <<query, unused>>

\* InputDevice::affinity and InputDevice::convert of the device built
device_query(device_type) ==
    /\ query = NoQuery
    /\ query' = Query("device", dev, device_type,
                      InputDevice_affinity(dev, device_type),
                      InputDevice_convert(dev, device_type))
    /\ UNCHANGED <<dev, nsets, unused>>

DevNext ==
    \/ \E button \in NesButtons, value \in BOOLEAN : Nes_set(button, value)
    \/ \E button \in ControllerButtons, value \in BOOLEAN : Controller_set(button, value)
    \/ \E axis \in ControllerSticks, value \in StickValues : Controller_set(axis, value)
    \/ \E axis \in ControllerTriggers, value \in TriggerValues : Controller_set(axis, value)
    \/ \E key \in Keys : key_down(key)
    \/ \E scan_code \in KeyCode : key_up(scan_code)
    \/ \E device_type \in InputDeviceType : device_query(device_type)

DevSpec == DevInit /\ [][DevNext]_vars

-----------------------------------------------------------------------------
(* A pool queried as a whole and member by member *)

\* InputCollection::affinity and InputCollection::convert of the pool built
collection_query(device_type) ==
    /\ pc = "build"
    /\ query = NoQuery
    /\ query' = Query("pool", pool, device_type,
                      InputCollection_affinity(pool, device_type),
                      InputCollection_convert(pool, device_type))
    /\ UNCHANGED <<pool, players, pc, dist, result, remaining, last, passes, dev, nsets,
                 operands, history>>

\* InputDevice::affinity and InputDevice::convert of one member of the pool
member_query(i, device_type) ==
    /\ pc = "build"
    /\ query = NoQuery
    /\ query' = Query("device", pool[i], device_type,
                      InputDevice_affinity(pool[i], device_type),
                      InputDevice_convert(pool[i], device_type))
    /\ UNCHANGED <<pool, players, pc, dist, result, remaining, last, passes, dev, nsets,
                 operands, history>>

PoolInit == Init /\ players = <<>>

PoolNext ==
    \/ \E device \in PoolDevices : query = NoQuery /\ add_input(device)
    \/ \E device_type \in InputDeviceType : collection_query(device_type)
    \/ \E i \in 1..Len(pool), device_type \in InputDeviceType : member_query(i, device_type)

PoolSpec == PoolInit /\ [][PoolNext]_vars

-----------------------------------------------------------------------------
(* Claims about split and get_input_arguments *)

HasAffinity(device, t) == IsSome(InputDevice_affinity(device, t))

\* positions claimed in the latest split by the slots before slot i
ClaimedBefore(i) == {Unwrap(last.claimed[j]) : j \in {k \in 1..(i - 1) : IsSome(last.claimed[k])}}

\* indices of the latest split's input still unclaimed at slot i and with a
\* defined affinity to players[i]
Candidates(i) ==
    {k \in 1..Len(last.input) :
        /\ last.input[k].pos \notin ClaimedBefore(i)
        /\ HasAffinity(last.input[k].dev, players[i])}

AffinityAt(k, i) == Unwrap(InputDevice_affinity(last.input[k].dev, players[i]))

\* k wins slot i: no candidate has a lower affinity, none of equal affinity is earlier
Wins(k, i) ==
    /\ k \in Candidates(i)
    /\ \A m \in Candidates(i) :
        \/ AffinityAt(k, i) < AffinityAt(m, i)
        \/ AffinityAt(k, i) = AffinityAt(m, i) /\ k <= m

\* C1: in every split pass, each slot claims the unclaimed device of strictly
\* lowest defined affinity, the earliest of those of equal affinity; its
\* candidate is that device converted, and None exactly when no unclaimed
\* device has a defined affinity.
C1_SplitClaimsLowestEarliest ==
    passes >= 1 =>
        /\ Len(last.found) = Len(players)
        /\ \A i \in 1..Len(players) :
            IF Candidates(i) = {}
            THEN IsNone(last.found[i]) /\ IsNone(last.claimed[i])
            ELSE \E k \in Candidates(i) :
                    /\ Wins(k, i)
                    /\ last.claimed[i] = Some(last.input[k].pos)
                    /\ last.found[i] = InputDevice_convert(last.input[k].dev, players[i])

\* a pass where the winner of slot 1 sits behind a device of higher affinity and
\* ahead of a different device of equal affinity
C1_Witness ==
    /\ passes >= 1
    /\ Len(players) >= 1
    /\ \E k \in Candidates(1) :
        /\ last.claimed[1] = Some(last.input[k].pos)
        /\ \E m \in Candidates(1) : m < k /\ AffinityAt(m, 1) > AffinityAt(k, 1)
        /\ \E m \in Candidates(1) :
            /\ m > k
            /\ AffinityAt(m, 1) = AffinityAt(k, 1)
            /\ last.input[m].dev # last.input[k].dev

\* the pool members with a defined affinity to t, converted, in insertion order
RECURSIVE Conversions(_, _)
Conversions(inputs, t) ==
    IF Len(inputs) = 0 THEN <<>>
    ELSE (IF HasAffinity(Head(inputs), t)
          THEN <<Unwrap(InputDevice_convert(Head(inputs), t))>>
          ELSE <<>>) \o Conversions(Tail(inputs), t)

RECURSIVE CombineLeft(_, _)
CombineLeft(acc, rest) ==
    IF Len(rest) = 0 THEN acc
    ELSE CombineLeft(InputDevice_combine(acc, Head(rest)), Tail(rest))

\* C2: with a single requested player of type t, the result is the
\* left-to-right combine, in pool insertion order, of the conversions of every
\* convertible pool device (for Nes: the OR of them), None when there is none.
C2_SurplusMerged ==
    (pc = "done" /\ Len(players) = 1) =>
        LET t == players[1]
            conv == Conversions(pool, t)
        IN  /\ Len(result) = 1
            /\ IF Len(conv) = 0
               THEN IsNone(result[1])
               ELSE /\ result[1] = Some(CombineLeft(Head(conv), Tail(conv)))
                    /\ t = "Nes" =>
                        \A f \in NesButtons :
                            Unwrap(result[1]).dev[f]
                                <=> \E k \in 1..Len(conv) : conv[k].dev[f]

\* a finished single-player call that merged three devices, not all alike
C2_Witness ==
    /\ pc = "done"
    /\ Len(players) = 1
    /\ Len(Conversions(pool, players[1])) = 3
    /\ passes = 4
    /\ \E k \in 1..3 : Some(Conversions(pool, players[1])[k]) # result[1]

\* C3: a slot that is None after the first split is None in the result, in
\* every later pass and on return.
C3_UnmatchedStaysNone ==
    pc \in {"loop", "done"} =>
        \A i \in 1..Len(players) : IsNone(dist[i]) => IsNone(result[i])

\* a returned call that absorbed a surplus device while another slot stayed None
C3_Witness ==
    /\ pc = "done"
    /\ passes >= 3
    /\ \E i \in 1..Len(players) : IsNone(dist[i]) /\ IsNone(result[i])
    /\ \E i \in 1..Len(players) : IsSome(dist[i]) /\ result[i] # dist[i]

\* C4: every loop iteration that does not stop the loop leaves a strictly
\* smaller remainder, and a call inside the loop eventually returns.
C4_Terminates ==
    /\ [][(pc = "loop" /\ pc' = "loop") => Len(remaining') < Len(remaining)]_vars
    /\ (pc = "loop") ~> (pc = "done")

\* a call that returned after at least two progressing iterations
C4_Witness == pc = "done" /\ passes >= 4 /\ Len(remaining) < Len(pool)

\* C5 as stated: the number of split invocations of a call is at most the
\* number of devices in the pool.
C5_PassesAtMostPoolSize == pc = "done" => passes <= Len(pool)

\* C5 amended: the final, non-progressing split is one more pass: a call makes
\* at least 2 and at most max(2, pool size + 1) split invocations.
C5_PassesAtMostPoolSizePlusOne ==
    /\ passes <= Max(2, Len(pool) + 1)
    /\ pc = "done" => passes >= 2

\* the bound is met: a pool whose every device is absorbed into one slot
C5_Witness == pc = "done" /\ Len(pool) = MaxPool /\ passes = Len(pool) + 1

-----------------------------------------------------------------------------
(* Claims about affinity and convert *)

\* the conversion table of the design
AffinityTable(variant, device_type) ==
    CASE variant = device_type -> Some(0)
      [] variant = "Controller" /\ device_type = "Nes" -> Some(1)
      [] variant = "Keyboard" /\ device_type = "Nes" -> Some(2)
      [] OTHER -> None

\* C6: affinity(device, target) is the table entry for the device's variant and
\* the target, whatever buttons, axes or keys the device holds.
C6_AffinityTable ==
    query.of = "device" =>
        query.affinity = AffinityTable(query.input.variant, query.device_type)

\* a Controller with something set, asked for Nes, scores 1
C6_Witness ==
    /\ query.of = "device"
    /\ query.input.variant = "Controller"
    /\ query.input.dev # Controller_default
    /\ query.device_type = "Nes"
    /\ query.affinity = Some(1)

\* C7: convert is Some exactly when affinity is Some, for a device and for a
\* pool, and a Some conversion has the requested variant.
C7_ConvertMirrorsAffinity ==
    query.of \in {"device", "pool"} =>
        /\ IsSome(query.convert) <=> IsSome(query.affinity)
        /\ IsSome(query.convert) => Unwrap(query.convert).variant = query.device_type

\* a pool whose first member cannot convert and whose later members were
\* combined into a conversion
C7_Witness ==
    /\ query.of = "pool"
    /\ Len(query.input) = 3
    /\ ~HasAffinity(query.input[1], query.device_type)
    /\ HasAffinity(query.input[2], query.device_type)
    /\ HasAffinity(query.input[3], query.device_type)
    /\ IsSome(query.convert)
    /\ IsSome(query.affinity)

\* C8: a device converted to its own variant scores 0, converts to a device
\* equal to itself field for field, and no defined affinity is below 0.
C8_Identity ==
    query.of = "device" =>
        /\ query.device_type = query.input.variant =>
            /\ query.affinity = Some(0)
            /\ query.convert = Some(query.input)
        /\ IsSome(query.affinity) => Unwrap(query.affinity) >= 0

\* a Keyboard holding a key whose key code differs from its scan code,
\* converted to Keyboard
C8_Witness ==
    /\ query.of = "device"
    /\ query.input.variant = "Keyboard"
    /\ query.device_type = "Keyboard"
    /\ \E i \in 1..Len(query.input.dev.pressed) :
        query.input.dev.pressed[i].key_code # query.input.dev.pressed[i].scan_code
    /\ query.convert = Some(query.input)

\* the Controller fields the Nes projection reads
NesSources == {"a", "b", "start", "select", "up", "down", "left", "right",
               "left_stick_x", "left_stick_y"}

FieldValues(field) ==
    CASE field \in ControllerButtons -> BOOLEAN
      [] field \in ControllerSticks -> StickValues
      [] field \in ControllerTriggers -> TriggerValues

\* C9: Controller->Nes copies a, b, start and select, ORs each d-pad button
\* with its half of the left stick (left: x < -0.5, right: x >= 0.5, up:
\* y < -0.5, down: y >= 0.5), and reads no other Controller field.
C9_ControllerToNes ==
    (query.of = "device" /\ query.input.variant = "Controller" /\ query.device_type = "Nes") =>
        LET c == query.input.dev
        IN  /\ IsSome(query.convert)
            /\ Unwrap(query.convert).variant = "Nes"
            /\ LET nes == Unwrap(query.convert).dev
               IN  /\ DOMAIN nes = NesButtons
                   /\ nes.a = c.a
                   /\ nes.b = c.b
                   /\ nes.start = c.start
                   /\ nes.select = c.select
                   /\ nes.left <=> (c.left \/ c.left_stick_x < -2)
                   /\ nes.right <=> (c.right \/ c.left_stick_x >= 2)
                   /\ nes.up <=> (c.up \/ c.left_stick_y < -2)
                   /\ nes.down <=> (c.down \/ c.left_stick_y >= 2)
            /\ \A field \in (ControllerButtons \cup ControllerAxes) \ NesSources :
                \A value \in FieldValues(field) :
                    InputDevice_convert(
                        InputDevice_Controller([c EXCEPT ![field] = value]), "Nes")
                    = query.convert

\* a stick at exactly -0.5 on y and exactly 0.5 on x: right is down, up is not
C9_Witness ==
    /\ query.of = "device"
    /\ query.input.variant = "Controller"
    /\ query.device_type = "Nes"
    /\ query.input.dev.left_stick_x = 2
    /\ query.input.dev.left_stick_y = -2
    /\ Unwrap(query.convert).dev.right
    /\ ~Unwrap(query.convert).dev.up

PressedScans(keyboard) == {keyboard.pressed[i].scan_code : i \in 1..Len(keyboard.pressed)}

\* the scan codes bound to a button: those that, pressed alone, set it
BoundTable ==
    [button \in NesButtons |->
        {s \in KeyCode : Keyboard_to_nes([pressed |-> <<Key_new(s, s)>>])[button]}]

Bound(button) == BoundTable[button]

\* the scan codes bound to exactly one button, with that button
SoleBindings ==
    {sb \in KeyCode \X NesButtons :
        \A b2 \in NesButtons : sb[1] \in BoundTable[b2] <=> b2 = sb[2]}

\* C10: Keyboard->Nes reads the pressed scan codes only: every button has a
\* bound scan code and is down exactly when one of its bound scan codes is
\* pressed; no key gives the all-false Nes, and a lone scan code bound to one
\* button sets that button alone.
C10_KeyboardToNes ==
    (query.of = "device" /\ query.input.variant = "Keyboard" /\ query.device_type = "Nes") =>
        LET scans == PressedScans(query.input.dev)
        IN  /\ IsSome(query.convert)
            /\ Unwrap(query.convert).variant = "Nes"
            /\ LET nes == Unwrap(query.convert).dev
               IN  /\ DOMAIN nes = NesButtons
                   /\ \A button \in NesButtons :
                        /\ Bound(button) # {}
                        /\ nes[button] <=> (scans \cap Bound(button) # {})
                   /\ scans = {} => nes = Nes_default
                   /\ \A sb \in SoleBindings :
                        scans = {sb[1]} => nes = [Nes_default EXCEPT ![sb[2]] = TRUE]

\* a keyboard whose only bound scan code is W, held next to a key whose key
\* code, not its scan code, is a bound one: up alone is down
C10_Witness ==
    /\ query.of = "device"
    /\ query.input.variant = "Keyboard"
    /\ query.device_type = "Nes"
    /\ PressedScans(query.input.dev) = {"W", "Q"}
    /\ \E i \in 1..2 : query.input.dev.pressed[i] = Key_new("Q", "A")
    /\ Unwrap(query.convert).dev = [Nes_default EXCEPT !["up"] = TRUE]

-----------------------------------------------------------------------------
(* Combine runs: three devices of one variant handed to combine *)

ControllerWith(down, lx, ly, rx, ry, lt, rt) ==
    InputDevice_Controller(
        [f \in ControllerButtons \cup ControllerAxes |->
            CASE f \in ControllerButtons -> f \in down
              [] f = "left_stick_x" -> lx
              [] f = "left_stick_y" -> ly
              [] f = "right_stick_x" -> rx
              [] f = "right_stick_y" -> ry
              [] f = "left_trigger" -> lt
              [] f = "right_trigger" -> rt])

NesSamples ==
    {NesOf({}),
     NesOf(NesButtons),
     NesOf({"a"}),
     NesOf({"b", "up"}),
     NesOf({"a", "start", "left"}),
     NesOf({"b", "select", "down", "right"})}

ControllerSamples ==
    {InputDevice_Controller(Controller_default),
     ControllerWith(ControllerButtons, 4, 4, 4, 4, 4, 4),
     ControllerWith({"a", "x", "up", "left", "start", "left_shoulder", "left_stick", "guide"},
                    2, -4, -4, -4, 0, 0),
     ControllerWith({"b", "y", "down", "right", "select", "right_shoulder", "right_stick"},
                    -4, 4, 2, -2, 2, 4),
     ControllerWith({"a", "b"}, 4, -4, -2, 2, 4, 2),
     ControllerWith({}, -2, -1, -3, 1, 1, 3),
     ControllerWith({"guide"}, 0, -4, 3, -4, 3, 0)}

CombInit ==
    /\ operands \in [1..3 -> NesSamples] \cup [1..3 -> ControllerSamples]
    /\ nsets = 0
    /\ query = NoQuery
    /\ dev = NoDevice
    /\ pool = <<>>
    /\ players = <<>>
    /\ pc = "combine"
    /\ dist = <<>>
    /\ result = <<>>
    /\ remaining = <<>>
    /\ last = NoSplit
    /\ passes = 0
    /\ history = NoHistory

\* a.combine(&b) and the calls the algebraic laws of combine compare it with
combine_query ==
    /\ pc = "combine"
    /\ query = NoQuery
    /\ LET a == operands[1]
           b == operands[2]
           c == operands[3]
       IN  query' = [of   |-> "combine",
                     ab   |-> InputDevice_combine(a, b),
                     ba   |-> InputDevice_combine(b, a),
                     ab_c |-> InputDevice_combine(InputDevice_combine(a, b), c),
                     a_bc |-> InputDevice_combine(a, InputDevice_combine(b, c)),
                     aa   |-> InputDevice_combine(a, a)]
    /\ UNCHANGED <<dev, nsets, unused>>

CombNext == combine_query

CombSpec == CombInit /\ [][CombNext]_vars

-----------------------------------------------------------------------------
(* Claims about combine *)

\* C11: combine of two Nes devices and of two Controller devices sets every
\* boolean field to the OR of the operands' fields and every axis field to
\* the larger of the operands' values; hence combine(a, b) = combine(b, a),
\* combine(combine(a, b), c) = combine(a, combine(b, c)) and combine(a, a) = a.
C11_CombineOrMax ==
    query.of = "combine" =>
        LET a == operands[1].dev
            b == operands[2].dev
            booleans == IF operands[1].variant = "Nes" THEN NesButtons ELSE ControllerButtons
        IN  /\ query.ab.variant = operands[1].variant
            /\ DOMAIN query.ab.dev = DOMAIN a
            /\ \A f \in DOMAIN a :
                   IF f \in booleans
                   THEN query.ab.dev[f] = (a[f] \/ b[f])
                   ELSE /\ query.ab.dev[f] \in {a[f], b[f]}
                        /\ query.ab.dev[f] >= a[f]
                        /\ query.ab.dev[f] >= b[f]
            /\ query.ab = query.ba
            /\ query.ab_c = query.a_bc
            /\ query.aa = operands[1]

C11_Witness ==
    /\ query.of = "combine"
    /\ operands[1].variant = "Controller"
    /\ operands[1].dev.left_stick_x > operands[2].dev.left_stick_x
    /\ operands[1].dev.left_stick_y < operands[2].dev.left_stick_y
    /\ operands[3].dev.right_trigger < operands[2].dev.right_trigger
    /\ operands[1].dev.a /\ ~operands[2].dev.a
    /\ ~operands[1].dev.b /\ operands[2].dev.b
    /\ query.ab.dev.left_stick_x = operands[1].dev.left_stick_x
    /\ query.ab.dev.left_stick_y = operands[2].dev.left_stick_y
    /\ query.ab.dev.a /\ query.ab.dev.b

\* C12: combining two Controllers does not attenuate a full deflection: a
\* stick axis at -1 or +1, or a trigger at 1, in either operand is found at
\* the same value in the combined Controller whatever the other operand
\* holds (the other operand at the opposite full deflection set aside).
C12_FullDeflectionKept ==
    (query.of = "combine" /\ operands[1].variant = "Controller") =>
        \A f \in ControllerAxes :
            \A p \in {<<1, 2>>, <<2, 1>>} :
                LET mine == operands[p[1]].dev[f]
                    other == operands[p[2]].dev[f]
                IN  /\ mine = 4 => query.ab.dev[f] = 4
                    /\ (f \in ControllerSticks /\ mine = -4 /\ other # 4)
                           => query.ab.dev[f] = -4

-----------------------------------------------------------------------------
(* Keyboard runs: two keyboards driven by key_down, key_up and combine *)

KbKeys ==
    {Key_new("W", "W"), Key_new("W", "Up"), Key_new("Q", "Q"), Key_new("Q", "W"),
     Key_new("Enter", "Enter")}

KbScans == {key.scan_code : key \in KbKeys}

KbInit ==
    /\ operands = <<InputDevice_Keyboard(Keyboard_default),
                    InputDevice_Keyboard(Keyboard_default)>>
    /\ nsets = 0
    /\ query = NoQuery
    /\ dev = NoDevice
    /\ pool = <<>>
    /\ players = <<>>
    /\ pc = "keyboard"
    /\ dist = <<>>
    /\ result = <<>>
    /\ remaining = <<>>
    /\ last = NoSplit
    /\ passes = 0
    /\ history = NoHistory

\* operands[i].key_down(key)
operand_key_down(i, key) ==
    /\ pc = "keyboard"
    /\ nsets < MaxOps
    /\ \E out \in {Keyboard_key_down(operands[i].dev, key)} :
           /\ operands' = [operands EXCEPT ![i] = InputDevice_Keyboard(out)]
           /\ query' = [of |-> "key_down", self |-> operands[i].dev, key |-> key, out |-> out]
    /\ nsets' = nsets + 1
    /\ UNCHANGED <<pool, players, pc, dist, result, remaining, last, passes, dev, history>>

\* operands[i].key_up(scan_code)
operand_key_up(i, scan_code) ==
    /\ pc = "keyboard"
    /\ nsets < MaxOps
    /\ \E out \in {Keyboard_key_up(operands[i].dev, scan_code)} :
           /\ operands' = [operands EXCEPT ![i] = InputDevice_Keyboard(out)]
           /\ query' = [of |-> "key_up", self |-> operands[i].dev,
                        scan_code |-> scan_code, out |-> out]
    /\ nsets' = nsets + 1
    /\ UNCHANGED <<pool, players, pc, dist, result, remaining, last, passes, dev, history>>

\* operands[i] = operands[i].combine(&operands[j])
operand_combine(i, j) ==
    /\ pc = "keyboard"
    /\ nsets < MaxOps
    /\ \E out \in {Keyboard_combine(operands[i].dev, operands[j].dev)} :
           /\ operands' = [operands EXCEPT ![i] = InputDevice_Keyboard(out)]
           /\ query' = [of |-> "keyboard_combine", self |-> operands[i].dev,
                        with |-> operands[j].dev, out |-> out]
    /\ nsets' = nsets + 1
    /\ UNCHANGED <<pool, players, pc, dist, result, remaining, last, passes, dev, history>>

KbNext ==
    \/ \E i \in 1..2, key \in KbKeys : operand_key_down(i, key)
    \/ \E i \in 1..2, scan_code \in KbScans : operand_key_up(i, scan_code)
    \/ \E i \in 1..2, j \in 1..2 : operand_combine(i, j)

KbSpec == KbInit /\ [][KbNext]_vars

-----------------------------------------------------------------------------
(* Claims about Keyboard *)

KeysOf(keyboard) == {keyboard.pressed[i] : i \in 1..Len(keyboard.pressed)}

OtherThan(keyboard, scan_code) ==
    SelectSeq(keyboard.pressed, LAMBDA key : key.scan_code # scan_code)

\* C13: Keyboard combine(a, b) holds exactly the union of the scan codes
\* pressed in a and in b, one entry each; a scan code pressed in one operand
\* only keeps its key code, a scan code pressed in both carries b's key code.
C13_KeyboardCombineUnion ==
    query.of = "keyboard_combine" =>
        LET a == query.self
            b == query.with
            out == query.out
        IN  /\ PressedScans(out) = PressedScans(a) \cup PressedScans(b)
            /\ Len(out.pressed) = Cardinality(PressedScans(out))
            /\ \A key \in KeysOf(out) :
                   IF key.scan_code \in PressedScans(b)
                   THEN key \in KeysOf(b)
                   ELSE key \in KeysOf(a)

C13_Witness ==
    /\ query.of = "keyboard_combine"
    /\ Key_new("W", "W") \in KeysOf(query.self)
    /\ Key_new("W", "Up") \in KeysOf(query.with)
    /\ "Q" \in PressedScans(query.self) \ PressedScans(query.with)
    /\ Key_new("W", "Up") \in KeysOf(query.out)
    /\ "Q" \in PressedScans(query.out)

\* C14: from empty keyboards, after any sequence of key_down, key_up and
\* combine the pressed list holds at most one entry per scan code; key_down
\* of a pressed scan code replaces its key code without adding an entry, and
\* key_up(s) removes the entry of s and leaves every other entry unchanged.
C14_OneEntryPerScanCode ==
    /\ pc = "keyboard" =>
           \A i \in 1..Len(operands) :
               Len(operands[i].dev.pressed) = Cardinality(PressedScans(operands[i].dev))
    /\ query.of = "key_down" =>
           /\ \A key \in KeysOf(query.out) :
                  key.scan_code = query.key.scan_code => key = query.key
           /\ query.key \in KeysOf(query.out)
           /\ OtherThan(query.out, query.key.scan_code)
                  = OtherThan(query.self, query.key.scan_code)
           /\ Len(query.out.pressed) =
                  IF query.key.scan_code \in PressedScans(query.self)
                  THEN Len(query.self.pressed)
                  ELSE Len(query.self.pressed) + 1
    /\ query.of = "key_up" =>
           /\ query.scan_code \notin PressedScans(query.out)
           /\ query.out.pressed = OtherThan(query.self, query.scan_code)
           /\ Len(query.out.pressed) =
                  IF query.scan_code \in PressedScans(query.self)
                  THEN Len(query.self.pressed) - 1
                  ELSE Len(query.self.pressed)

C14_Witness ==
    /\ query.of = "key_down"
    /\ query.key = Key_new("W", "Up")
    /\ Key_new("W", "W") \in KeysOf(query.self)
    /\ Len(query.self.pressed) = 2
    /\ Len(query.out.pressed) = 2
    /\ nsets = 4

-----------------------------------------------------------------------------
(* Claims about the pool's own affinity and convert *)

\* C15: affinity(pool, t) is the minimum of affinity(d, t) over the members d
\* with a defined affinity to t, wherever they sit in the pool, and None
\* exactly when there is no such member (the empty pool included).
C15_PoolAffinityIsMinimum ==
    query.of = "pool" =>
        LET defined == {Unwrap(InputDevice_affinity(query.input[i], query.device_type)) :
                            i \in {j \in 1..Len(query.input) :
                                       HasAffinity(query.input[j], query.device_type)}}
        IN  IF defined = {}
            THEN query.affinity = None
            ELSE /\ IsSome(query.affinity)
                 /\ Unwrap(query.affinity) \in defined
                 /\ \A x \in defined : Unwrap(query.affinity) <= x

\* a pool scoring 2, 1 and 0 towards Nes in that order: the minimum sits last
C15_Witness ==
    /\ query.of = "pool"
    /\ query.device_type = "Nes"
    /\ Len(query.input) = 3
    /\ InputDevice_affinity(query.input[1], "Nes") = Some(2)
    /\ InputDevice_affinity(query.input[2], "Nes") = Some(1)
    /\ InputDevice_affinity(query.input[3], "Nes") = Some(0)
    /\ query.affinity = Some(0)

\* two devices alike; keyboards are compared by the keys they hold
SameDevice(x, y) ==
    IF x.variant = "Keyboard" /\ y.variant = "Keyboard"
    THEN KeysOf(x.dev) = KeysOf(y.dev)
    ELSE x = y

\* C16: convert(pool, t) is the left-to-right fold, in insertion order, of
\* combine over the conversions of the convertible members (the first one the
\* initial left operand, each later one the right operand), None exactly when
\* no member converts; for two pool keyboards pressing the same scan code the
\* result carries the key code of the later-inserted keyboard.
C16_ConvertFoldsInInsertionOrder ==
    query.of = "pool" =>
        LET conv == Conversions(query.input, query.device_type)
        IN  IF Len(conv) = 0
            THEN query.convert = None
            ELSE /\ IsSome(query.convert)
                 /\ SameDevice(Unwrap(query.convert), CombineLeft(Head(conv), Tail(conv)))

-----------------------------------------------------------------------------
(* Claims about the shape of the result and the end of the loop *)

\* C17: the result has one entry per requested player, in request order, and
\* every Some entry holds a device of the variant that player requested, right
\* after the first pass, after every absorption pass and on return.
C17_ResultMatchesRequest ==
    pc \in {"loop", "done"} =>
        /\ Len(result) = Len(players)
        /\ Len(dist) = Len(players)
        /\ Len(last.found) = Len(players)
        /\ \A i \in 1..Len(players) :
            /\ IsSome(result[i]) => Unwrap(result[i]).variant = players[i]
            /\ IsSome(dist[i]) => Unwrap(dist[i]).variant = players[i]
            /\ IsSome(last.found[i]) => Unwrap(last.found[i]).variant = players[i]

\* a returned call for two players of different types, both served by devices
\* of another variant, after an absorption pass
C17_Witness ==
    /\ pc = "done"
    /\ passes >= 3
    /\ Len(players) = 2
    /\ players[1] = "Nes"
    /\ players[2] = "Controller"
    /\ IsSome(result[1]) /\ IsSome(result[2])
    /\ \A k \in 1..Len(pool) : pool[k].variant # "Nes"
    /\ result[1] # dist[1]

\* pool positions with a defined affinity to players[i] that the slots before
\* i left unclaimed in the latest split
Unclaimed(i) ==
    {k \in 1..Len(pool) : k \notin ClaimedBefore(i) /\ HasAffinity(pool[k], players[i])}

\* a one-to-one assignment of distinct pool devices to all the slots, each with
\* a defined affinity to its slot's type
Matchable ==
    \E m \in [1..Len(players) -> 1..Len(pool)] :
        /\ \A i, j \in 1..Len(players) : i # j => m[i] # m[j]
        /\ \A i \in 1..Len(players) : HasAffinity(pool[m[i]], players[i])

\* C18 as stated: a slot is None only when no compatible device could be
\* found for it; whenever the pool's devices can be matched one-to-one onto
\* all the requested slots, the result has no None slot.
C18_MatchableMeansNoNone ==
    (pc = "done" /\ Len(pool) >= 1 /\ Matchable) =>
        \A i \in 1..Len(players) : IsSome(result[i])

\* C18, amended: a slot is None exactly when, at its turn in the first pass,
\* no device left unclaimed by the slots before it has a defined affinity to
\* its type; when all players request one type and the pool holds at least as
\* many devices with a defined affinity to it, the result has no None slot.
C18_NoneWhenNothingLeftAtItsTurn ==
    /\ (pc = "loop" /\ passes = 1) =>
           \A i \in 1..Len(players) : IsNone(result[i]) <=> Unclaimed(i) = {}
    /\ pc \in {"loop", "done"} =>
           \A i \in 1..Len(players) : IsNone(result[i]) <=> IsNone(dist[i])
    /\ (pc \in {"loop", "done"}
        /\ \A i \in 1..Len(players) : players[i] = players[1]
        /\ Cardinality({k \in 1..Len(pool) :
                            \A j \in 1..Len(players) : HasAffinity(pool[k], players[j])})
               >= Len(players))
           => \A i \in 1..Len(players) : IsSome(result[i])

\* a first pass where the Nes slot took the only Controller and left the
\* Controller slot empty, a Keyboard still being there for the Nes slot
C18_Witness ==
    /\ pc = "loop"
    /\ passes = 1
    /\ players = <<"Nes", "Controller">>
    /\ Matchable
    /\ IsSome(result[1])
    /\ IsNone(result[2])
    /\ Unclaimed(2) = {}
    /\ \E k \in 1..Len(pool) : pool[k].variant = "Keyboard"

\* the pool members with a defined affinity to some requested type
Relevant(inputs, devices) ==
    SelectSeq(inputs, LAMBDA d : \E i \in 1..Len(devices) : HasAffinity(d, devices[i]))

\* C19: the loop stops exactly at the first loop pass that claims no device,
\* and the remainder then dropped holds no device with a defined affinity to
\* any requested type; a device with no defined affinity to any requested type
\* is claimed in no pass and the result is what the pool without it gives.
C19_LoopStopsWhenNothingClaimed ==
    /\ passes >= 2 =>
           (pc = "done" <=> \A i \in 1..Len(players) : IsNone(last.claimed[i]))
    /\ pc = "done" =>
           /\ \A k \in 1..Len(remaining), i \in 1..Len(players) :
                  ~HasAffinity(remaining[k].dev, players[i])
           /\ last.remaining = remaining
           /\ result = assign(Relevant(pool, players), players)
    /\ passes >= 1 =>
           \A i \in 1..Len(players) :
               IsSome(last.claimed[i]) => HasAffinity(pool[Unwrap(last.claimed[i])], players[i])

\* a returned call whose pool starts with a device no player can use, dropped
\* after two absorption passes
C19_Witness ==
    /\ pc = "done"
    /\ passes >= 3
    /\ Len(players) >= 1
    /\ \A i \in 1..Len(players) : ~HasAffinity(pool[1], players[i])
    /\ \E k \in 1..Len(remaining) : remaining[k].pos = 1
    /\ IsSome(result[1])
    /\ result[1] # dist[1]

-----------------------------------------------------------------------------
(* Repeated calls on one collection *)

\* request lists of the calls made between two calls with the first list
OtherInfos == {<<"Nes">>, <<"Keyboard", "Controller">>}

\* the call with a first split that takes the devices out of self.inputs
\* instead of out of a clone
call_draining(info) ==
    /\ pc = "build"
    /\ history.calls < MaxCalls
    /\ players' = info
    /\ \E s \in {split(Entries(pool), info)} :
           /\ dist' = s.found
           /\ result' = s.found
           /\ remaining' = s.remaining
           /\ last' = [input |-> Entries(pool), found |-> s.found,
                       claimed |-> s.claimed, remaining |-> s.remaining]
           /\ pool' = [k \in 1..Len(s.remaining) |-> s.remaining[k].dev]
    /\ passes' = 1
    /\ pc' = "loop"
    /\ history' = [history EXCEPT !.calls = @ + 1, !.entry = pool,
                       !.others = IF IsSome(history.first)
                                     /\ Unwrap(history.first).players # info
                                  THEN @ + 1 ELSE @]
    /\ UNCHANGED <<dev, nsets, query, operands>>

\* get_input_arguments(info) up to its first split, on a collection that may
\* have served calls before
call(info) ==
    /\ pc = "build"
    /\ history.calls < MaxCalls
    /\ players' = info
    /\ \E s \in {split(Entries(pool), info)} :
           /\ dist' = s.found
           /\ result' = s.found
           /\ remaining' = s.remaining
           /\ last' = [input |-> Entries(pool), found |-> s.found,
                       claimed |-> s.claimed, remaining |-> s.remaining]
           /\ pool' = pool
    /\ passes' = 1
    /\ pc' = "loop"
    /\ history' = [history EXCEPT !.calls = @ + 1, !.entry = pool,
                       !.others = IF IsSome(history.first)
                                     /\ Unwrap(history.first).players # info
                                  THEN @ + 1 ELSE @]
    /\ UNCHANGED <<dev, nsets, query, operands>>

\* line 155: the call returns and its locals are dropped
return_arguments ==
    /\ pc = "done"
    /\ pc' = "build"
    /\ history' = IF IsSome(history.first) THEN history
                  ELSE [history EXCEPT !.first =
                            Some([pool |-> pool, players |-> players, result |-> result])]
    /\ dist' = <<>>
    /\ result' = <<>>
    /\ remaining' = <<>>
    /\ last' = NoSplit
    /\ passes' = 0
    /\ UNCHANGED <<pool, players, dev, nsets, query, operands>>

\* the list of the first call, and the lists of the calls made in between
RequestLists ==
    {IF IsSome(history.first) THEN Unwrap(history.first).players ELSE players}
        \cup OtherInfos

ReNext ==
    \/ \E device \in FairDevices : history.calls = 0 /\ add_input(device)
    \/ \E info \in RequestLists : call(info)
    \/ loop_iteration
    \/ return_arguments

ReSpec == Init /\ [][ReNext]_vars

\* C20: get_input_arguments leaves the pool it is called on unchanged (same
\* devices, same order, same field values) and keeps no state between calls:
\* a later call with the same pool and request list returns an equal result,
\* whatever calls were made in between.
C20_PoolUnchangedAndStateless ==
    /\ pc \in {"loop", "done"} => pool = history.entry
    /\ (pc = "done" /\ IsSome(history.first)) =>
           LET first == Unwrap(history.first)
           IN  (first.pool = pool /\ first.players = players) => result = first.result

\* a third call, with the list and pool of the first and after a call with
\* another list, that merged a surplus device and returned the first result
C20_Witness ==
    /\ pc = "done"
    /\ history.calls = 3
    /\ history.others >= 1
    /\ IsSome(history.first)
    /\ Unwrap(history.first).pool = pool
    /\ Unwrap(history.first).players = players
    /\ players \notin OtherInfos
    /\ Len(pool) >= 2
    /\ passes >= 3
    /\ \E i \in 1..Len(players) : IsSome(result[i])
    /\ result = Unwrap(history.first).result

-----------------------------------------------------------------------------
(* The engine as a game sees it: assignment, pool conversion, player lookup *)

i32_MAX == 2147483647
i32_MIN == (-i32_MAX) - 1

\* `player as usize` with the absolute value taken for a negative index
as_usize_abs(player) ==
    IF player >= 0 THEN [wrapped |-> FALSE, n |-> player]
    ELSE [wrapped |-> FALSE, n |-> IF player = i32_MIN THEN i32_MAX ELSE -player]

\* `player as usize`: a negative i32 wraps to 2^w + player, w the pointer
\* width (32 or 64); that is 2^31 + n with n >= 0, kept as the pair (wrapped, n)
as_usize(player) ==
    IF player >= 0 THEN [wrapped |-> FALSE, n |-> player]
    ELSE [wrapped |-> TRUE, n |-> (player + i32_MAX) + 1]

\* Vec::get: a vector holds fewer than 2^31 elements
Vec_get(vec, index) ==
    IF index.wrapped \/ index.n >= Len(vec) THEN None ELSE Some(vec[index.n + 1])

\* InputArguments::player; self is the players vector
InputArguments_player(self, player) ==
    LET found == Vec_get(self, as_usize(player))
    IN  IF IsSome(found) THEN Unwrap(found) ELSE None

PlayerInputArguments_nes(self) ==
    IF self.variant = "Nes" THEN Some(self.dev) ELSE None

\* controller() matching every device that is not a Keyboard
PlayerInputArguments_controller_or_nes(self) ==
    IF self.variant # "Keyboard" THEN Some(self.dev) ELSE None

PlayerInputArguments_controller(self) ==
    IF self.variant = "Controller" THEN Some(self.dev) ELSE None

PlayerInputArguments_keyboard(self) ==
    IF self.variant = "Keyboard" THEN Some(self.dev) ELSE None

\* the combine calls InputCollection::convert makes, as pairs (self, with)
RECURSIVE convert_pop_calls(_, _)
convert_pop_calls(res, successfully_converted) ==
    IF Len(successfully_converted) = 0 THEN <<>>
    ELSE <<[self |-> res, with |-> successfully_converted[Len(successfully_converted)]]>>
            \o convert_pop_calls(
                    InputDevice_combine(res, successfully_converted[Len(successfully_converted)]),
                    SubSeq(successfully_converted, 1, Len(successfully_converted) - 1))

InputCollection_convert_calls(inputs, device_type) ==
    LET successfully_converted == convert_collect(inputs, device_type, 1)
        n == Len(successfully_converted)
    IN  IF n = 0 THEN <<>>
        ELSE convert_pop_calls(successfully_converted[n],
                               SubSeq(successfully_converted, 1, n - 1))

PlayerIndices == {i32_MIN, -2, -1, i32_MAX} \cup 0..(MaxPlayers + 1)

\* input.player(player) on the returned InputArguments, and the typed
\* accessors of the player found
player_query(player) ==
    /\ pc = "done"
    /\ query = NoQuery
    /\ \E out \in {InputArguments_player(result, player)} :
           query' = [of |-> "player", player |-> player, out |-> out,
                     nes |-> IF IsSome(out)
                             THEN PlayerInputArguments_nes(Unwrap(out)) ELSE None,
                     controller |-> IF IsSome(out)
                                    THEN PlayerInputArguments_controller(Unwrap(out)) ELSE None,
                     keyboard |-> IF IsSome(out)
                                  THEN PlayerInputArguments_keyboard(Unwrap(out)) ELSE None]
    /\ UNCHANGED <<pool, players, pc, dist, result, remaining, last, passes, dev, nsets,
                 operands, history>>

EngineNext ==
    \/ \E device \in FairDevices : query = NoQuery /\ add_input(device)
    \/ query = NoQuery /\ get_input_arguments
    \/ loop_iteration
    \/ \E device_type \in InputDeviceType : collection_query(device_type)
    \/ \E player \in PlayerIndices : player_query(player)

EngineSpec == Init /\ [][EngineNext]_vars

\* C21: every combine made while computing get_input_arguments or
\* convert(pool, t) has two operands of the same variant: a result slot and a
\* candidate both of the slot's type, respectively two conversions to t.
C21_CombinesSameVariant ==
    /\ [][(pc = "loop" /\ pc' = "loop") =>
            \A i \in 1..Len(result) :
                (IsSome(result[i]) /\ IsSome(last'.found[i])) =>
                    /\ Unwrap(result[i]).variant = players[i]
                    /\ Unwrap(last'.found[i]).variant = players[i]]_vars
    /\ [](query.of = "pool" =>
            LET calls == InputCollection_convert_calls(query.input, query.device_type)
            IN  \A k \in 1..Len(calls) :
                    /\ calls[k].self.variant = query.device_type
                    /\ calls[k].with.variant = query.device_type)

\* a returned call whose Nes slot absorbed a device after the first pass, from
\* a pool holding no Nes device
C21_Witness ==
    /\ pc = "done"
    /\ passes >= 3
    /\ Len(players) >= 1
    /\ players[1] = "Nes"
    /\ IsSome(result[1])
    /\ \A k \in 1..Len(pool) : pool[k].variant # "Nes"
    /\ \E k \in 1..Len(pool) : pool[k].variant = "Keyboard"
    /\ \E k \in 1..Len(pool) : pool[k].variant = "Controller"
    /\ remaining = <<>>

\* C22: InputArguments::player(i) returns Some exactly when 0 <= i < N and
\* slot i is assigned, then that slot's device; it returns None for every
\* negative index, every index >= N and every unassigned slot.
C22_PlayerLookup ==
    query.of = "player" =>
        IF /\ 0 <= query.player
           /\ query.player < Len(result)
           /\ IsSome(result[query.player + 1])
        THEN query.out = result[query.player + 1]
        ELSE query.out = None

\* player(-1) on a result whose slots 0 and 1 are both assigned
C22_Witness ==
    /\ query.of = "player"
    /\ query.player = -1
    /\ Len(result) = 2
    /\ IsSome(result[1]) /\ IsSome(result[2])
    /\ query.out = None

\* C23: exactly one of nes(), controller(), keyboard() returns Some, the one
\* of the device's variant, with the device in it; for a slot assigned by
\* get_input_arguments it is the accessor of the type that player requested.
C23_OneTypedAccessor ==
    (query.of = "player" /\ IsSome(query.out)) =>
        LET input == Unwrap(query.out)
            requested == players[query.player + 1]
        IN  /\ input.variant = requested
            /\ query.nes = IF requested = "Nes" THEN Some(input.dev) ELSE None
            /\ query.controller = IF requested = "Controller" THEN Some(input.dev) ELSE None
            /\ query.keyboard = IF requested = "Keyboard" THEN Some(input.dev) ELSE None

\* the Nes slot of a two-player result, served by a Controller
C23_Witness ==
    /\ query.of = "player"
    /\ query.player = 1
    /\ players = <<"Keyboard", "Nes">>
    /\ IsSome(query.out)
    /\ IsSome(query.nes)
    /\ query.controller = None
    /\ query.keyboard = None
    /\ \A k \in 1..Len(pool) : pool[k].variant # "Nes"

-----------------------------------------------------------------------------
(* Claims about degenerate inputs and about what one pass does to the pool *)

\* C24: with an empty pool the call returns one None per requested player,
\* with an empty request list it returns an empty result, and for every pool
\* and request list each index the call uses is in range and the call returns.
C24_DegenerateInputs ==
    /\ []((pc \in {"loop", "done"} /\ pool = <<>>) =>
            /\ Len(result) = Len(players)
            /\ \A i \in 1..Len(players) : IsNone(result[i]))
    /\ []((pc \in {"loop", "done"} /\ players = <<>>) => result = <<>>)
    /\ [](passes >= 1 =>
            /\ Len(last.found) = Len(result)
            /\ \A i \in 1..Len(last.claimed) :
                   IsSome(last.claimed[i]) => Unwrap(last.claimed[i]) \in 1..Len(pool))
    /\ (pc = "loop") ~> (pc = "done")

\* a call for two players on an empty pool, returned after its two splits
C24_Witness ==
    /\ pc = "done"
    /\ pool = <<>>
    /\ Len(players) = 2
    /\ result = <<None, None>>
    /\ passes = 2

\* positions the latest split claimed
ClaimedNow == {Unwrap(last.claimed[i]) : i \in {j \in 1..Len(last.claimed) : IsSome(last.claimed[j])}}

\* C25: one split pass partitions its input: no position is claimed by two
\* slots, the remainder is exactly the unclaimed devices in their original
\* order, and the Some candidates plus the remainder count the input.
C25_SplitPartitions ==
    passes >= 1 =>
        /\ \A i, j \in 1..Len(last.claimed) :
               (i # j /\ IsSome(last.claimed[i])) => last.claimed[i] # last.claimed[j]
        /\ \A i \in 1..Len(last.found) : IsSome(last.found[i]) <=> IsSome(last.claimed[i])
        /\ ClaimedNow \subseteq {last.input[k].pos : k \in 1..Len(last.input)}
        /\ last.remaining = SelectSeq(last.input, LAMBDA e : e.pos \notin ClaimedNow)
        /\ Cardinality({i \in 1..Len(last.found) : IsSome(last.found[i])})
               + Len(last.remaining) = Len(last.input)

\* a first pass over three devices where slot 1 claimed the second device and
\* slot 2 the first, the third being the remainder
C25_Witness ==
    /\ passes = 1
    /\ Len(players) = 2
    /\ Len(pool) = 3
    /\ last.claimed = <<Some(2), Some(1)>>
    /\ Len(last.remaining) = 1
    /\ last.remaining[1].pos = 3

\* positions of the devices the latest split was given
OfferedNow == {last.input[k].pos : k \in 1..Len(last.input)}

\* C26: across the passes of one call every pool device, identified by its
\* position, serves at most one slot: a pass gives no device to two slots, and
\* a device claimed in a pass is offered to no slot in any later pass.
C26_DeviceServesOneSlot ==
    [][passes' = passes + 1 =>
        /\ \A i, j \in 1..Len(players) :
               (i # j /\ IsSome(last'.claimed[i])) => last'.claimed[i] # last'.claimed[j]
        /\ ClaimedNow' \subseteq OfferedNow'
        /\ OfferedNow' = IF passes = 0 THEN 1..Len(pool) ELSE OfferedNow \ ClaimedNow]_vars

\* a second pass where slot 1 took the third device, the first two devices
\* having gone to slots 1 and 2 in the first pass
C26_Witness ==
    /\ pc = "loop"
    /\ passes = 2
    /\ Len(pool) = 3
    /\ Len(players) = 2
    /\ IsSome(dist[1]) /\ IsSome(dist[2])
    /\ last.claimed = <<Some(3), None>>
    /\ OfferedNow = {3}

\* C27: no device is claimed and then thrown away: a pass of the loop has a
\* candidate for slot i only if result[i] is already Some, and a progressing
\* pass combines every candidate into its slot.
C27_NoClaimThrownAway ==
    [][pc = "loop" =>
        \A i \in 1..Len(players) :
            /\ IsSome(last'.found[i]) => IsSome(result[i])
            /\ (IsSome(last'.claimed[i]) /\ pc' = "loop") =>
                   /\ IsSome(last'.found[i])
                   /\ result'[i] = Some(InputDevice_combine(Unwrap(result[i]),
                                                            Unwrap(last'.found[i])))]_vars

\* a pass of the loop that found a second Controller for the Nes slot while the
\* Keyboard slot, None since the first pass, got no candidate
C27_Witness ==
    /\ pc = "loop"
    /\ passes = 2
    /\ players = <<"Nes", "Keyboard">>
    /\ IsNone(dist[2])
    /\ IsSome(last.found[1])
    /\ IsNone(last.found[2])
    /\ result[1] # dist[1]
    /\ IsNone(result[2])

-----------------------------------------------------------------------------
(* Claims about what the passes add up to *)

\* C28: when all N >= 1 players request the same type t and the pool holds k
\* devices with a defined affinity to t, exactly the first min(N, k) slots are
\* Some, none of the k devices is left in the dropped remainder, and the
\* filled slots together hold the input of all k devices.
C28_UniformRequestFillsPrefix ==
    (pc \in {"loop", "done"} /\ Len(players) >= 1
        /\ \A i \in 1..Len(players) : players[i] = players[1]) =>
        LET t == players[1]
            conv == Conversions(pool, t)
            k == Len(conv)
            m == IF Len(players) <= k THEN Len(players) ELSE k
            slots == {Unwrap(result[i]).dev : i \in 1..m}
            given == {conv[j].dev : j \in 1..k}
        IN  /\ \A i \in 1..Len(players) : IsSome(result[i]) <=> i <= m
            /\ pc = "done" =>
                /\ \A j \in 1..Len(remaining) : ~HasAffinity(remaining[j].dev, t)
                /\ t = "Keyboard" =>
                       UNION {PressedScans(x) : x \in slots}
                           = UNION {PressedScans(x) : x \in given}
                /\ t = "Nes" =>
                       \A f \in NesButtons :
                           (\E x \in slots : x[f]) <=> (\E x \in given : x[f])
                /\ t = "Controller" =>
                       /\ \A f \in ControllerButtons :
                              (\E x \in slots : x[f]) <=> (\E x \in given : x[f])
                       /\ \A f \in ControllerAxes :
                              /\ \A x \in given : \E y \in slots : y[f] >= x[f]
                              /\ \A y \in slots : \E x \in given : x[f] = y[f]

\* two Nes players served from three devices of three variants, the third one
\* merged into the first slot
C28_Witness ==
    /\ pc = "done"
    /\ players = <<"Nes", "Nes">>
    /\ Len(pool) = 3
    /\ \A i, j \in 1..3 : i # j => pool[i].variant # pool[j].variant
    /\ IsSome(result[1]) /\ IsSome(result[2])
    /\ result[1] # dist[1]
    /\ remaining = <<>>

\* y holds at least the input x holds
Accumulates(x, y) ==
    /\ x.variant = y.variant
    /\ CASE x.variant = "Nes" -> \A f \in NesButtons : x.dev[f] => y.dev[f]
         [] x.variant = "Controller" ->
                /\ \A f \in ControllerButtons : x.dev[f] => y.dev[f]
                /\ \A f \in ControllerAxes : y.dev[f] >= x.dev[f]
         [] x.variant = "Keyboard" -> PressedScans(x.dev) \subseteq PressedScans(y.dev)

\* C29: from one pass to the next a Some slot stays Some, a button that is
\* down stays down, an axis never decreases and a pressed scan code stays
\* pressed.
C29_AbsorptionAccumulates ==
    [][pc = "loop" =>
        \A i \in 1..Len(players) :
            IsSome(result[i]) =>
                /\ IsSome(result'[i])
                /\ Accumulates(Unwrap(result[i]), Unwrap(result'[i]))]_vars

\* a Controller slot whose trigger and buttons grew after the first pass
C29_Witness ==
    /\ pc = "done"
    /\ Len(players) >= 1
    /\ players[1] = "Controller"
    /\ IsSome(result[1])
    /\ Unwrap(result[1]).dev.left_trigger > Unwrap(dist[1]).dev.left_trigger
    /\ Unwrap(result[1]).dev.left_stick_x > -4
    /\ Unwrap(result[1]).dev.a /\ Unwrap(result[1]).dev.x
    /\ Unwrap(dist[1]).dev.a /\ ~Unwrap(dist[1]).dev.x

\* C30: a split pass is greedy in slot order: the candidate of slot i is the
\* one the same pool gives to the request list cut after slot i, and adding a
\* player at the end changes no earlier candidate; an earlier slot takes its
\* lowest-affinity device even if a later slot can use no other.
C30_GreedyNoLookAhead ==
    passes >= 1 =>
        /\ \A i \in 1..Len(players) :
               \E s \in {split(last.input, SubSeq(players, 1, i))} :
                   /\ s.found[i] = last.found[i]
                   /\ s.claimed[i] = last.claimed[i]
        /\ \A t \in InputDeviceType :
               \E s \in {split(last.input, Append(players, t))} :
                   /\ SubSeq(s.found, 1, Len(players)) = last.found
                   /\ SubSeq(s.claimed, 1, Len(players)) = last.claimed

\* the Nes slot took the pool's only Controller, its lowest affinity, and the
\* Controller slot after it found nothing, a Keyboard being left over
C30_Witness ==
    /\ passes = 1
    /\ players = <<"Nes", "Controller">>
    /\ IsSome(last.claimed[1])
    /\ pool[Unwrap(last.claimed[1])].variant = "Controller"
    /\ Cardinality({k \in 1..Len(pool) : pool[k].variant = "Controller"}) = 1
    /\ IsNone(last.found[2])
    /\ \E k \in 1..Len(last.remaining) : last.remaining[k].dev.variant = "Keyboard"

TypeOK ==
    /\ pc \in {"build", "loop", "done"}
    /\ Len(pool) <= MaxPool
    /\ pc # "build" => Len(result) = Len(players)

====
